---- MODULE Spec2Model ----
(***************************************************************************)
(* A model of the CHIP-8 interpreter core (init_machine, step_machine,     *)
(* update_time and the sixteen nibble_N opcode handlers) and of the ROM    *)
(* loader and host loop of chip8.c.                                        *)
(*                                                                         *)
(* The machine (struct machine_t) is the record cpu.  byte is an unsigned  *)
(* 8-bit and word an unsigned 16-bit integer: every store into a byte      *)
(* field is reduced mod 256 and every store into a word field mod 65536.   *)
(***************************************************************************)
EXTENDS Integers, Naturals, Sequences, FiniteSets, TLC

VARIABLES
    cpu,           \* struct machine_t
    global_delta,  \* static int global_delta: milliseconds not yet ticked
    speaker_on,    \* last argument given to cpu->speaker; -1: never called
    call,          \* the last call made by the host and what it observed
    prev,          \* registers, I, screen and wait_key before that call, and
                   \* the opcode that the call before it executed (or -1)
    steps,         \* number of step_machine calls made so far
    ticks          \* number of update_time calls made so far

vars == <<cpu, global_delta, speaker_on, call, prev, steps, ticks>>

-----------------------------------------------------------------------------
(* Sizes fixed by the program. *)

MEMSIZ     == 4096
SCREENSIZ  == 2048
STACKSIZ   == 16
TICK_MS    == 1000 \div 60
FONT_BASE  == 80
ROM_BASE   == 512

(* Bounds of the model. *)

MaxSteps == 18
MaxTicks == 2

-----------------------------------------------------------------------------
(* Bit operations of C on non-negative integers. *)

RECURSIVE BitAnd(_, _)
BitAnd(a, b) ==
    IF a = 0 \/ b = 0 THEN 0
    ELSE (a % 2) * (b % 2) + 2 * BitAnd(a \div 2, b \div 2)

RECURSIVE BitOr(_, _)
BitOr(a, b) ==
    IF a = 0 THEN b
    ELSE IF b = 0 THEN a
    ELSE (IF a % 2 = 1 \/ b % 2 = 1 THEN 1 ELSE 0) + 2 * BitOr(a \div 2, b \div 2)

RECURSIVE BitXor(_, _)
BitXor(a, b) ==
    IF a = 0 THEN b
    ELSE IF b = 0 THEN a
    ELSE ((a + b) % 2) + 2 * BitXor(a \div 2, b \div 2)

Pow2(n) == CASE n = 0 -> 1 [] n = 1 -> 2 [] n = 2 -> 4 [] n = 3 -> 8
             [] n = 4 -> 16 [] n = 5 -> 32 [] n = 6 -> 64 [] n = 7 -> 128

ToByte(x) == x % 256
ToWord(x) == x % 65536

(* The opcode field macros. *)

OPCODE_NNN(opcode) == BitAnd(opcode, 4095)
OPCODE_KK(opcode)  == BitAnd(opcode, 255)
OPCODE_N(opcode)   == BitAnd(opcode, 15)
OPCODE_X(opcode)   == BitAnd(opcode \div 256, 15)
OPCODE_Y(opcode)   == BitAnd(opcode \div 16, 15)
OPCODE_P(opcode)   == opcode \div 4096

hexcodes == <<
    240, 144, 144, 144, 240,
     32,  96,  32,  32, 112,
    240,  16, 240, 128, 240,
    240,  16, 240,  16, 240,
    144, 144, 240,  16,  16,
    240, 128, 240,  16, 240,
    240, 128, 240, 144, 240,
    240,  16,  32,  64,  64,
    240, 144, 240, 144, 240,
    240, 144, 240,  16, 240,
    240, 144, 240, 144, 144,
    224, 144, 224, 144, 224,
    240, 128, 128, 128, 240,
    224, 144, 144, 144, 224,
    240, 128, 240, 128, 240,
    240, 128, 240, 128, 128 >>

-----------------------------------------------------------------------------
(* Memory accesses.  mem has MEMSIZ bytes and the handlers index it with   *)
(* I + offset (and the fetch with pc + 1) without any bounds check.  An    *)
(* index past the array is undefined behaviour: a read yields whatever     *)
(* byte lies there (oobr, any byte), a write lands in whatever the build   *)
(* placed behind mem (oobw: nothing the machine holds, the program         *)
(* counter, or the screen bitmap).                                         *)

OobTargets == {"lost", "pc", "screen"}

ReadMem(c, addr, oobr) ==
    IF addr < MEMSIZ THEN c.mem[addr] ELSE oobr

WriteMem(c, addr, b, oobw) ==
    IF addr < MEMSIZ THEN [c EXCEPT !.mem[addr] = b]
    ELSE LET off == addr - MEMSIZ IN
         CASE oobw = "pc" /\ off = 0 ->
                [c EXCEPT !.pc = (c.pc \div 256) * 256 + b]
           [] oobw = "pc" /\ off = 1 ->
                [c EXCEPT !.pc = b * 256 + (c.pc % 256)]
           [] oobw = "screen" /\ off < SCREENSIZ ->
                [c EXCEPT !.screen[off] = b]
           [] OTHER -> c

-----------------------------------------------------------------------------
(* The sixteen opcode handlers.  Each takes the machine and the opcode and *)
(* yields the machine after the handler returns; the statements of a       *)
(* handler are applied one after the other, so a later statement reads     *)
(* what an earlier one stored.                                             *)

(* nibble_0 with the return not guarded by sp > 0. *)
nibble_0_unguarded_return(c, opcode) ==
    IF opcode = 224 THEN
        [c EXCEPT !.screen = [p \in 0..(SCREENSIZ - 1) |-> 0]]
    ELSE IF opcode = 238 THEN
        [c EXCEPT !.sp = (c.sp - 1) % 256,
                  !.pc = IF c.sp > 0 THEN c.stack[c.sp - 1] ELSE 0]
    ELSE c

nibble_0(c, opcode) ==
    IF opcode = 224 THEN
        [c EXCEPT !.screen = [p \in 0..(SCREENSIZ - 1) |-> 0]]
    ELSE IF opcode = 238 THEN
        IF c.sp > 0
        THEN [c EXCEPT !.sp = c.sp - 1, !.pc = c.stack[c.sp - 1]]
        ELSE c
    ELSE c

nibble_1(c, opcode) ==
    [c EXCEPT !.pc = OPCODE_NNN(opcode)]

(* nibble_2 pushing the address of the call itself. *)
nibble_2_pushes_call_address(c, opcode) ==
    IF c.sp < STACKSIZ
    THEN [c EXCEPT !.stack[c.sp] = BitAnd(c.pc + 4094, 4095),
                   !.sp = c.sp + 1,
                   !.pc = OPCODE_NNN(opcode)]
    ELSE c

(* nibble_2 with the bound test off by one (sp <= 16). *)
nibble_2_off_by_one(c, opcode) ==
    IF c.sp <= STACKSIZ
    THEN [c EXCEPT !.stack = [s \in 0..(STACKSIZ - 1) |->
                                 IF s = c.sp THEN c.pc ELSE c.stack[s]],
                   !.sp = c.sp + 1,
                   !.pc = OPCODE_NNN(opcode)]
    ELSE c

nibble_2(c, opcode) ==
    IF c.sp < STACKSIZ
    THEN [c EXCEPT !.stack[c.sp] = c.pc, !.sp = c.sp + 1,
                   !.pc = OPCODE_NNN(opcode)]
    ELSE c

(* nibble_3 with the skip not reduced mod 0x1000. *)
nibble_3_no_wrap(c, opcode) ==
    IF c.v[OPCODE_X(opcode)] = OPCODE_KK(opcode)
    THEN [c EXCEPT !.pc = c.pc + 2]
    ELSE c

nibble_3(c, opcode) ==
    IF c.v[OPCODE_X(opcode)] = OPCODE_KK(opcode)
    THEN [c EXCEPT !.pc = BitAnd(c.pc + 2, 4095)]
    ELSE c

nibble_4(c, opcode) ==
    IF c.v[OPCODE_X(opcode)] # OPCODE_KK(opcode)
    THEN [c EXCEPT !.pc = BitAnd(c.pc + 2, 4095)]
    ELSE c

nibble_5(c, opcode) ==
    IF c.v[OPCODE_X(opcode)] = c.v[OPCODE_Y(opcode)]
    THEN [c EXCEPT !.pc = BitAnd(c.pc + 2, 4095)]
    ELSE c

nibble_6(c, opcode) ==
    [c EXCEPT !.v[OPCODE_X(opcode)] = OPCODE_KK(opcode)]

nibble_7(c, opcode) ==
    [c EXCEPT !.v[OPCODE_X(opcode)] = ToByte(@ + OPCODE_KK(opcode))]

nibble_8(c, opcode) ==
    LET x == OPCODE_X(opcode)
        y == OPCODE_Y(opcode)
        n == OPCODE_N(opcode)
        Flag(b) == IF b THEN 1 ELSE 0
    IN CASE n = 0 -> [c EXCEPT !.v[x] = c.v[y]]
         [] n = 1 -> [c EXCEPT !.v[x] = BitOr(c.v[x], c.v[y])]
         [] n = 2 -> [c EXCEPT !.v[x] = BitAnd(c.v[x], c.v[y])]
         [] n = 3 -> [c EXCEPT !.v[x] = BitXor(c.v[x], c.v[y])]
         [] n = 4 ->
              LET c1 == [c EXCEPT !.v[15] =
                            Flag(c.v[x] > BitAnd(c.v[x] + c.v[y], 255))]
              IN [c1 EXCEPT !.v[x] = ToByte(c1.v[x] + c1.v[y])]
         [] n = 5 ->
              LET c1 == [c EXCEPT !.v[15] = Flag(c.v[x] > c.v[y])]
              IN [c1 EXCEPT !.v[x] = ToByte(c1.v[x] - c1.v[y])]
         [] n = 6 ->
              LET c1 == [c EXCEPT !.v[15] = BitAnd(c.v[x], 1)]
              IN [c1 EXCEPT !.v[x] = c1.v[x] \div 2]
         [] n = 7 ->
              LET c1 == [c EXCEPT !.v[15] = Flag(c.v[y] > c.v[x])]
              IN [c1 EXCEPT !.v[x] = ToByte(c1.v[y] - c1.v[x])]
         [] n = 14 ->
              LET c1 == [c EXCEPT !.v[15] = Flag(BitAnd(c.v[x], 128) # 0)]
              IN [c1 EXCEPT !.v[x] = ToByte(c1.v[x] * 2)]
         [] OTHER -> c

nibble_9(c, opcode) ==
    IF c.v[OPCODE_X(opcode)] # c.v[OPCODE_Y(opcode)]
    THEN [c EXCEPT !.pc = BitAnd(c.pc + 2, 4095)]
    ELSE c

nibble_A(c, opcode) ==
    [c EXCEPT !.i = OPCODE_NNN(opcode)]

nibble_B(c, opcode) ==
    [c EXCEPT !.pc = BitAnd(c.v[0] + OPCODE_NNN(opcode), 4095)]

(* rnd is the value rand() returns. *)
nibble_C(c, opcode, rnd) ==
    [c EXCEPT !.v[OPCODE_X(opcode)] = BitAnd(rnd, OPCODE_KK(opcode))]

(* draw_row with the collision flag assigned (=) instead of ORed in (|=). *)
RECURSIVE draw_row_flag_assigned(_, _, _, _, _, _)
draw_row_flag_assigned(c, x, y, j, sprite, i) ==
    IF i >= 8 THEN c
    ELSE LET px    == BitAnd(c.v[x] + i, 63)
             py    == BitAnd(c.v[y] + j, 31)
             pos   == 64 * py + px
             pixel == IF BitAnd(sprite, Pow2(7 - i)) # 0 THEN 1 ELSE 0
             c1    == [c EXCEPT !.v[15] = BitAnd(c.screen[pos], pixel)]
             c2    == [c1 EXCEPT !.screen[pos] = BitXor(c1.screen[pos], pixel)]
         IN draw_row_flag_assigned(c2, x, y, j, sprite, i + 1)

(* The inner loop of DXYN: the columns i..7 of sprite row j. *)
RECURSIVE draw_row(_, _, _, _, _, _)
draw_row(c, x, y, j, sprite, i) ==
    IF i >= 8 THEN c
    ELSE LET px    == BitAnd(c.v[x] + i, 63)
             py    == BitAnd(c.v[y] + j, 31)
             pos   == 64 * py + px
             pixel == IF BitAnd(sprite, Pow2(7 - i)) # 0 THEN 1 ELSE 0
             c1    == [c EXCEPT !.v[15] =
                          BitOr(c.v[15], BitAnd(c.screen[pos], pixel))]
             c2    == [c1 EXCEPT !.screen[pos] = BitXor(c1.screen[pos], pixel)]
         IN draw_row(c2, x, y, j, sprite, i + 1)

(* The outer loop of DXYN: the rows j..N-1. *)
RECURSIVE draw_rows(_, _, _, _)
draw_rows(c, opcode, oobr, j) ==
    IF j >= OPCODE_N(opcode) THEN c
    ELSE LET sprite == ReadMem(c, c.i + j, oobr)
         IN draw_rows(draw_row(c, OPCODE_X(opcode), OPCODE_Y(opcode),
                               j, sprite, 0),
                      opcode, oobr, j + 1)

nibble_D(c, opcode, oobr) ==
    draw_rows([c EXCEPT !.v[15] = 0], opcode, oobr, 0)

(* nibble_E with every KK other than 0x9E taken for 0xA1. *)
nibble_E_else_is_sknp(c, opcode, keys) ==
    LET key == BitAnd(c.v[OPCODE_X(opcode)], 15) IN
    IF OPCODE_KK(opcode) = 158 THEN
        IF c.keydown /\ key \in keys
        THEN [c EXCEPT !.pc = BitAnd(c.pc + 2, 4095)]
        ELSE c
    ELSE
        IF c.keydown /\ key \notin keys
        THEN [c EXCEPT !.pc = BitAnd(c.pc + 2, 4095)]
        ELSE c

(* keys is the set of keys for which cpu->keydown answers non-zero. *)
nibble_E(c, opcode, keys) ==
    LET key == BitAnd(c.v[OPCODE_X(opcode)], 15) IN
    IF OPCODE_KK(opcode) = 158 THEN
        IF c.keydown /\ key \in keys
        THEN [c EXCEPT !.pc = BitAnd(c.pc + 2, 4095)]
        ELSE c
    ELSE IF OPCODE_KK(opcode) = 161 THEN
        IF c.keydown /\ key \notin keys
        THEN [c EXCEPT !.pc = BitAnd(c.pc + 2, 4095)]
        ELSE c
    ELSE c

RECURSIVE save_regs(_, _, _, _)
save_regs(c, opcode, oobw, reg) ==
    IF reg > OPCODE_X(opcode) THEN c
    ELSE save_regs(WriteMem(c, c.i + reg, c.v[reg], oobw), opcode, oobw, reg + 1)

RECURSIVE load_regs(_, _, _, _)
load_regs(c, opcode, oobr, reg) ==
    IF reg > OPCODE_X(opcode) THEN c
    ELSE load_regs([c EXCEPT !.v[reg] = ReadMem(c, c.i + reg, oobr)],
                   opcode, oobr, reg + 1)

nibble_F(c, opcode, oobr, oobw) ==
    LET x  == OPCODE_X(opcode)
        kk == OPCODE_KK(opcode)
    IN CASE kk = 7  -> [c EXCEPT !.v[x] = c.dt]
         [] kk = 10 -> [c EXCEPT !.wait_key = x]
         [] kk = 21 -> [c EXCEPT !.dt = c.v[x]]
         [] kk = 24 -> [c EXCEPT !.st = c.v[x]]
         [] kk = 30 -> [c EXCEPT !.i = ToWord(c.i + c.v[x])]
         [] kk = 41 -> [c EXCEPT !.i = 80 + BitAnd(c.v[x], 15) * 5]
         [] kk = 51 ->
              LET c1 == WriteMem(c, c.i + 2, c.v[x] % 10, oobw)
                  c2 == WriteMem(c1, c1.i + 1, (c1.v[x] \div 10) % 10, oobw)
              IN WriteMem(c2, c2.i, c2.v[x] \div 100, oobw)
         [] kk = 85  -> save_regs(c, opcode, oobw, 0)
         [] kk = 101 -> load_regs(c, opcode, oobr, 0)
         [] OTHER -> c

(* The handler table nibbles[16], indexed by the top nibble of the opcode. *)
nibbles(c, opcode, in) ==
    LET p == OPCODE_P(opcode) IN
    CASE p = 0  -> nibble_0(c, opcode)
      [] p = 1  -> nibble_1(c, opcode)
      [] p = 2  -> nibble_2(c, opcode)
      [] p = 3  -> nibble_3(c, opcode)
      [] p = 4  -> nibble_4(c, opcode)
      [] p = 5  -> nibble_5(c, opcode)
      [] p = 6  -> nibble_6(c, opcode)
      [] p = 7  -> nibble_7(c, opcode)
      [] p = 8  -> nibble_8(c, opcode)
      [] p = 9  -> nibble_9(c, opcode)
      [] p = 10 -> nibble_A(c, opcode)
      [] p = 11 -> nibble_B(c, opcode)
      [] p = 12 -> nibble_C(c, opcode, in.rnd)
      [] p = 13 -> nibble_D(c, opcode, in.oobr)
      [] p = 14 -> nibble_E(c, opcode, in.keys)
      [] p = 15 -> nibble_F(c, opcode, in.oobr, in.oobw)

-----------------------------------------------------------------------------
(* init_machine, the loader and the two entry points of the core.          *)

init_machine ==
    [ mem      |-> [a \in 0..(MEMSIZ - 1) |->
                      IF a >= FONT_BASE /\ a < FONT_BASE + 80
                      THEN hexcodes[a - FONT_BASE + 1] ELSE 0],
      v        |-> [r \in 0..15 |-> 0],
      i        |-> 0,
      pc       |-> 512,
      stack    |-> [s \in 0..(STACKSIZ - 1) |-> 0],
      sp       |-> 0,
      dt       |-> 0,
      st       |-> 0,
      screen   |-> [p \in 0..(SCREENSIZ - 1) |-> 0],
      wait_key |-> -1,
      keydown  |-> FALSE,
      speaker  |-> FALSE ]

(* load_rom: the bytes of the file are read to mem + 0x200. *)
load_rom(c, rom) ==
    [c EXCEPT !.mem = [a \in 0..(MEMSIZ - 1) |->
                         IF a >= ROM_BASE /\ a < ROM_BASE + Len(rom)
                         THEN rom[a - ROM_BASE + 1] ELSE c.mem[a]]]

(* key_loop reporting the key found in V[0xF] as well. *)
key_loop_sets_flag(c, keys, i) ==
    LET down == keys \cap (i..15) IN
    IF down = {} THEN c
    ELSE LET k == CHOOSE d \in down : \A e \in down : d <= e IN
         [c EXCEPT !.v = [r \in 0..15 |->
                             IF r = 15 THEN 1
                             ELSE IF r = c.wait_key THEN k
                             ELSE c.v[r]],
                   !.wait_key = -1]

(* key_loop scanning the keys from 15 down to 0. *)
key_loop_descending(c, keys, i) ==
    IF keys \cap (i..15) = {} THEN c
    ELSE [c EXCEPT !.v[c.wait_key] =
                      CHOOSE k \in keys \cap (i..15) :
                          \A j \in keys \cap (i..15) : k >= j,
                   !.wait_key = -1]

(* The loop over the sixteen keys of step_machine, from key i on. *)
RECURSIVE key_loop(_, _, _)
key_loop(c, keys, i) ==
    IF i >= 16 THEN c
    ELSE IF i \in keys
         THEN [c EXCEPT !.v[c.wait_key] = i, !.wait_key = -1]
         ELSE key_loop(c, keys, i + 1)

(* The opcode fetch: (mem[pc] << 8) | mem[pc + 1]. *)
fetch(c, oobr) ==
    BitOr(ReadMem(c, c.pc, oobr) * 256, ReadMem(c, c.pc + 1, oobr))

(* step_machine without the early return of a call that is still waiting. *)
step_machine_no_return(c, in) ==
    LET polls  == c.wait_key # -1 /\ c.keydown
        c1     == IF polls THEN key_loop(c, in.keys, 0) ELSE c
        opcode == fetch(c1, in.oobr)
        c2     == [c1 EXCEPT !.pc = BitAnd(c1.pc + 2, 4095)]
    IN nibbles(c2, opcode, in)

(* in: what the call reads from outside the machine: the keys that are     *)
(* down, the value of rand(), and the outcome of accesses past mem.        *)
step_machine(c, in) ==
    LET polls == c.wait_key # -1 /\ c.keydown
        c1    == IF polls THEN key_loop(c, in.keys, 0) ELSE c
    IN IF polls /\ c1.wait_key # -1 THEN c1
       ELSE LET opcode == fetch(c1, in.oobr)
                c2     == [c1 EXCEPT !.pc = BitAnd(c1.pc + 2, 4095)]
            IN nibbles(c2, opcode, in)

(* The while loop of update_time on s = (machine, global_delta, speaker). *)
RECURSIVE time_loop(_)
time_loop(s) ==
    IF s.global_delta > TICK_MS THEN
        LET c   == s.cpu
            c1  == IF c.dt > 0 THEN [c EXCEPT !.dt = c.dt - 1] ELSE c
            c2  == IF c1.st > 0 THEN [c1 EXCEPT !.st = c1.st - 1] ELSE c1
            spk == IF c1.st > 0 /\ c.speaker
                   THEN (IF c2.st = 0 THEN 0 ELSE 1)
                   ELSE s.speaker_on
        IN time_loop([cpu |-> c2,
                      global_delta |-> s.global_delta - TICK_MS,
                      speaker_on |-> spk])
    ELSE s

(* update_time with the elapsed time stored in the accumulator instead of  *)
(* added to it.                                                            *)
update_time_no_accumulate(c, gd, spk, delta) ==
    time_loop([cpu |-> c, global_delta |-> delta, speaker_on |-> spk])

update_time(c, gd, spk, delta) ==
    time_loop([cpu |-> c, global_delta |-> gd + delta, speaker_on |-> spk])

-----------------------------------------------------------------------------
(* The host: what it feeds the core.                                        *)

KeyStates  == {{}, {5}, {2, 9}}
RandValues == {0, 165, 32767}
OobBytes   == {0, 238, 255}
Deltas     == {16, 17, 1000}

NoInput == [keys |-> {}, rnd |-> 0, oobr |-> 0, oobw |-> "lost"]

(* Whether the call will fetch, and what a call consults: the choices of   *)
(* an input the call never looks at are not enumerated.                    *)
Fetches(c, keys) ==
    ~(c.wait_key # -1 /\ c.keydown /\ keys \cap (0..15) = {})

FetchOob(c) == c.pc + 1 >= MEMSIZ

PollsKeys(c) ==
    c.keydown /\ ( \/ c.wait_key # -1
                   \/ FetchOob(c)
                   \/ (c.mem[c.pc] \div 16 = 14 /\ c.mem[c.pc + 1] \in {158, 161}) )

ReadsOob(c, opcode) ==
    \/ OPCODE_P(opcode) = 13 /\ OPCODE_N(opcode) > 0
                             /\ c.i + OPCODE_N(opcode) - 1 >= MEMSIZ
    \/ OPCODE_P(opcode) = 15 /\ OPCODE_KK(opcode) = 101
                             /\ c.i + OPCODE_X(opcode) >= MEMSIZ

WritesOob(c, opcode) ==
    OPCODE_P(opcode) = 15 /\
       ( \/ OPCODE_KK(opcode) = 51 /\ c.i + 2 >= MEMSIZ
         \/ OPCODE_KK(opcode) = 85 /\ c.i + OPCODE_X(opcode) >= MEMSIZ )

(* The indices into mem that a fetching call uses: the two opcode bytes    *)
(* at pc, and the bytes at I that the handlers of DXYN, FX33, FX55 and     *)
(* FX65 read or write.                                                     *)
MemIndices(c, opcode) ==
    {c.pc, c.pc + 1}
      \cup (IF OPCODE_P(opcode) = 13
            THEN { c.i + j : j \in 0..(OPCODE_N(opcode) - 1) } ELSE {})
      \cup (IF OPCODE_P(opcode) = 15 /\ OPCODE_KK(opcode) = 51
            THEN { c.i, c.i + 1, c.i + 2 } ELSE {})
      \cup (IF OPCODE_P(opcode) = 15 /\ OPCODE_KK(opcode) \in {85, 101}
            THEN { c.i + reg : reg \in 0..OPCODE_X(opcode) } ELSE {})

StepInputs(c) ==
    UNION { UNION {
        LET f  == Fetches(c, keys)
            op == IF f THEN fetch(c, b) ELSE 0
        IN { [keys |-> keys, rnd |-> rnd, oobr |-> oobr, oobw |-> oobw] :
               rnd  \in (IF f /\ OPCODE_P(op) = 12 THEN RandValues ELSE {0}),
               oobr \in (IF f /\ FetchOob(c) THEN {b}
                         ELSE IF f /\ ReadsOob(c, op) THEN OobBytes ELSE {0}),
               oobw \in (IF f /\ WritesOob(c, op) THEN OobTargets ELSE {"lost"}) }
        : b \in (IF FetchOob(c) THEN OobBytes ELSE {0}) }
      : keys \in (IF PollsKeys(c) THEN KeyStates ELSE {{}}) }

Op(p, x, y, n) == p * 4096 + x * 256 + y * 16 + n

(* The bytes of a program given as a sequence of opcodes, high byte first. *)
Rom(prog) ==
    [k \in 1..(2 * Len(prog)) |->
        IF k % 2 = 1 THEN prog[(k + 1) \div 2] \div 256
                     ELSE prog[k \div 2] % 256]

-----------------------------------------------------------------------------
(* The state machine: main() initialises the machine, installs the key     *)
(* and speaker capabilities (the core tests both for NULL), loads the ROM, *)
(* and then calls step_machine and update_time.                            *)

History(c) ==
    [v |-> c.v, i |-> c.i, screen |-> c.screen, wait_key |-> c.wait_key,
     opcode |-> IF call.op = "step" /\ call.fetched THEN call.opcode ELSE -1]

(* A configuration is a program with the capabilities the host installs:  *)
(* <<program, keydown installed, speaker installed>>.                      *)
InitWith(configs) ==
    /\ \E cf \in configs :
          cpu = [load_rom(init_machine, Rom(cf[1]))
                    EXCEPT !.keydown = cf[2], !.speaker = cf[3]]
    /\ global_delta = 0
    /\ speaker_on = -1
    /\ call = [op |-> "init", fetched |-> FALSE, opcode |-> 0,
               in |-> NoInput, delta |-> 0]
    /\ prev = [v |-> cpu.v, i |-> cpu.i, screen |-> cpu.screen,
               wait_key |-> cpu.wait_key, opcode |-> -1]
    /\ steps = 0
    /\ ticks = 0

Step ==
    /\ steps < MaxSteps
    /\ \E in \in StepInputs(cpu) :
          /\ cpu' = step_machine(cpu, in)
          /\ call' = [op |-> "step", fetched |-> Fetches(cpu, in.keys),
                      opcode |-> IF Fetches(cpu, in.keys)
                                 THEN fetch(cpu, in.oobr) ELSE 0,
                      in |-> in, delta |-> 0]
    /\ prev' = History(cpu)
    /\ steps' = steps + 1
    /\ UNCHANGED <<global_delta, speaker_on, ticks>>

Tick ==
    /\ ticks < MaxTicks
    /\ \E delta \in Deltas :
          LET s == update_time(cpu, global_delta, speaker_on, delta) IN
          /\ cpu' = s.cpu
          /\ global_delta' = s.global_delta
          /\ speaker_on' = s.speaker_on
          /\ call' = [op |-> "tick", fetched |-> FALSE, opcode |-> 0,
                      in |-> NoInput, delta |-> delta]
    /\ prev' = History(cpu)
    /\ ticks' = ticks + 1
    /\ UNCHANGED steps

Next == Step \/ Tick

(* The programs the general specification runs, one per group of         *)
(* instructions.                                                           *)
KeyProgs ==
    { <<Op(15, 3, 0, 10), Op(7, 3, 0, 1), Op(1, 2, 0, 4)>>,
      <<Op(15, 0, 0, 10), Op(15, 1, 0, 10), Op(1, 2, 0, 4)>>,
      <<Op(6, 0, 0, 5), Op(14, 0, 9, 14), Op(14, 0, 10, 1), Op(1, 2, 0, 6)>> }

TimerProgs ==
    { <<Op(6, 0, 6, 4), Op(15, 0, 1, 5), Op(15, 0, 1, 8), Op(15, 1, 0, 7),
        Op(1, 2, 0, 6)>>,
      <<Op(6, 0, 0, 5), Op(15, 0, 1, 5), Op(15, 0, 1, 8), Op(1, 2, 0, 6)>> }

StackProgs ==
    { <<Op(2, 2, 0, 0), Op(2, 2, 0, 0), Op(2, 2, 0, 0)>>,
      <<Op(0, 0, 14, 14), Op(0, 0, 14, 14)>>,
      <<Op(2, 2, 0, 4), Op(1, 2, 0, 2), Op(0, 0, 14, 14)>> }

AddressProgs ==
    { <<Op(10, 15, 15, 15), Op(6, 0, 15, 15), Op(15, 0, 1, 14)>>,
      <<Op(6, 1, 1, 1), Op(6, 2, 15, 15), Op(10, 15, 15, 15), Op(15, 2, 5, 5)>>,
      <<Op(6, 0, 15, 14), Op(10, 15, 15, 14), Op(15, 0, 3, 3), Op(15, 1, 6, 5)>>,
      <<Op(6, 0, 15, 14), Op(10, 3, 0, 0), Op(15, 0, 3, 3), Op(15, 2, 6, 5),
        Op(15, 1, 2, 9), Op(15, 1, 5, 5), Op(1, 2, 0, 10)>>,
      <<Op(1, 15, 15, 15)>>,
      <<Op(6, 0, 15, 15), Op(11, 15, 15, 15)>> }

MiscProgs ==
    { <<Op(6, 0, 0, 5), Op(6, 1, 0, 3), Op(8, 0, 1, 4), Op(0, 0, 14, 14)>>,
      <<Op(12, 0, 15, 15), Op(12, 1, 0, 15), Op(1, 2, 0, 4)>>,
      <<Op(10, 0, 5, 0), Op(13, 0, 0, 5), Op(13, 0, 0, 5), Op(0, 0, 14, 0),
        Op(1, 2, 0, 8)>>,
      <<Op(3, 0, 0, 0), Op(4, 0, 0, 0), Op(4, 0, 0, 1), Op(5, 0, 1, 0),
        Op(9, 0, 1, 0), Op(1, 2, 0, 10)>>,
      <<Op(6, 0, 15, 0), Op(6, 1, 0, 15), Op(8, 0, 1, 1), Op(8, 0, 1, 2),
        Op(8, 0, 1, 3), Op(8, 0, 1, 5), Op(8, 0, 0, 6), Op(8, 0, 1, 7),
        Op(8, 0, 0, 14), Op(8, 2, 1, 0), Op(7, 2, 15, 15), Op(1, 2, 1, 6)>> }

Configs ==
    (KeyProgs \X BOOLEAN \X {TRUE})
        \cup (TimerProgs \X BOOLEAN \X BOOLEAN)
        \cup ((StackProgs \cup AddressProgs \cup MiscProgs) \X {TRUE} \X {TRUE})

Init == InitWith(Configs)

Spec == Init /\ [][Next]_vars

-----------------------------------------------------------------------------
(* The register-register addition on its own: V[X] = a, V[Y] = b, 8XY4,    *)
(* for register pairs that include X = Y, X = 0xF and Y = 0xF.             *)

AluRegs  == {0, 1, 15}
AluBytes == {0, 1, 100, 156, 200, 255}

AluProgs ==
    { <<Op(6, x, a \div 16, a % 16), Op(6, y, b \div 16, b % 16),
        Op(8, x, y, 4), Op(1, 2, 0, 6)>> :
        x \in AluRegs, y \in AluRegs, a \in AluBytes, b \in AluBytes }

InitAlu == InitWith(AluProgs \X {TRUE} \X {TRUE})

SpecAlu == InitAlu /\ [][Step]_vars

(* The sprite draw on its own: a glyph is drawn at (1, 1), then the sprite *)
(* of N rows at I = addr is drawn three times at (V[X], V[Y]).             *)

DrawRegs  == {0, 1, 15}
DrawXs    == {0, 61}
DrawYs    == {0, 30}
DrawAddrs == {0, 80, 4094}
DrawRows  == {0, 1, 5}

DrawProgs ==
    { <<Op(6, 2, 0, 1), Op(10, 0, 5, 0), Op(13, 2, 2, 5),
        Op(6, x, vx \div 16, vx % 16), Op(6, y, vy \div 16, vy % 16),
        Op(10, addr \div 256, (addr \div 16) % 16, addr % 16),
        Op(13, x, y, n), Op(13, x, y, n), Op(13, x, y, n)>> :
        x \in DrawRegs, y \in DrawRegs, vx \in DrawXs, vy \in DrawYs,
        addr \in DrawAddrs, n \in DrawRows }

InitDraw == InitWith(DrawProgs \X {TRUE} \X {TRUE})

SpecDraw == InitDraw /\ [][Step]_vars

-----------------------------------------------------------------------------
(* Properties.  A property of one call is an action formula: the unprimed  *)
(* variables are the machine before the call, the primed ones the machine  *)
(* after it, and call' says which call it was and what it read.            *)

(* The conditional skips on their own: V[X] = a, V[Y] = b, then one of     *)
(* 3XKK, 4XKK, 5XY0, 9XY0 at 0x204; and two programs that store a skip     *)
(* opcode at the end of memory and jump to it, so that the skip wraps.     *)

SkipRegs  == {0, 1, 15}
SkipBytes == {0, 7}

SkipOps(x, y) ==
    { Op(3, x, 0, 0), Op(3, x, 0, 7), Op(4, x, 0, 0), Op(4, x, 0, 7),
      Op(5, x, y, 0), Op(9, x, y, 0) }

SkipProgs ==
    UNION { { <<Op(6, x, 0, a), Op(6, y, 0, b), op,
                Op(1, 2, 0, 6), Op(1, 2, 0, 8)>> : op \in SkipOps(x, y) } :
            x \in SkipRegs, y \in SkipRegs, a \in SkipBytes, b \in SkipBytes }
      \cup { <<Op(6, 0, 3, 0), Op(6, 1, 0, 0), Op(10, 15, 15, 12),
               Op(15, 1, 5, 5), Op(6, 0, 0, 0), Op(1, 15, 15, 12)>>,
             <<Op(6, 0, 4, 0), Op(10, 15, 15, 15), Op(15, 0, 5, 5),
               Op(1, 15, 15, 15)>>,
             <<Op(6, 0, 9, 1), Op(6, 1, 0, 0), Op(10, 15, 15, 14),
               Op(15, 1, 5, 5), Op(1, 15, 15, 14)>> }

InitSkip == InitWith(SkipProgs \X {TRUE} \X {TRUE})

SpecSkip == InitSkip /\ [][Step]_vars

(* The opcodes no handler defines, each run twice on a machine whose       *)
(* registers, I, delay timer, stack and framebuffer have been set to       *)
(* values other than those of init_machine.                                *)

UndefinedOps ==
    { Op(0, 0, 0, 0), Op(0, 1, 2, 3), Op(0, 0, 14, 1), Op(0, 0, 14, 15),
      Op(0, 1, 14, 0), Op(0, 0, 15, 14), Op(0, 15, 15, 15) }
      \cup { Op(8, 0, 1, n) : n \in {8, 9, 10, 11, 12, 13, 15} }
      \cup { Op(8, 1, 0, 15), Op(8, 15, 0, 8) }
      \cup { Op(14, x, kk \div 16, kk % 16) :
               x \in {0, 1}, kk \in {0, 14, 157, 159, 160, 162, 255} }
      \cup { Op(15, x, kk \div 16, kk % 16) :
               x \in {0, 1},
               kk \in {0, 8, 11, 20, 22, 25, 31, 40, 48, 52, 84, 86, 100,
                       102, 117, 133, 255} }

UndefinedProgs ==
    { <<Op(6, 0, 10, 11), Op(6, 1, 0, 5), Op(10, 0, 5, 0), Op(13, 0, 1, 5),
        Op(2, 2, 0, 10), Op(15, 0, 1, 5), op, op, Op(1, 2, 1, 0)>> :
        op \in UndefinedOps }

InitUndefined == InitWith(UndefinedProgs \X {TRUE} \X {TRUE})

SpecUndefined == InitUndefined /\ [][Step]_vars

(* Subroutine calls on their own: nested and repeated calls with their     *)
(* returns, a recursion that fills the stack and unwinds it, and a call    *)
(* stored at 0xFFE whose return address wraps to 0.                        *)

CallProgs ==
    { <<Op(2, 2, 0, 6), Op(2, 2, 0, 6), Op(1, 2, 0, 4), Op(2, 2, 0, 10),
        Op(0, 0, 14, 14), Op(0, 0, 14, 14)>>,
      <<Op(2, 2, 0, 0), Op(0, 0, 14, 14)>>,
      <<Op(6, 0, 2, 2), Op(6, 1, 0, 10), Op(10, 15, 15, 14), Op(15, 1, 5, 5),
        Op(1, 15, 15, 14), Op(0, 0, 14, 14)>>,
      <<Op(2, 2, 0, 4), Op(1, 2, 0, 2), Op(6, 0, 0, 7), Op(2, 2, 0, 12),
        Op(7, 0, 0, 1), Op(0, 0, 14, 14), Op(10, 1, 2, 3), Op(0, 0, 14, 14)>> }
      \cup { <<Op(2, 2, 0, t), Op(1, 2, 0, 2), Op(2, 2, 0, 8),
               Op(0, 0, 14, 14), Op(0, 0, 14, 14), Op(2, 2, 0, t)>> :
             t \in {4, 6, 8, 10} }

InitCall == InitWith(CallProgs \X {TRUE} \X {TRUE})

SpecCall == InitCall /\ [][Step]_vars

(* The key wait on its own: three registers are loaded, FX0A waits for a   *)
(* key into register R, and the instruction behind it is a jump or a skip, *)
(* which writes no register.                                               *)

WaitRegs == {0, 1, 7, 15}

WaitProgs ==
    UNION { { <<Op(6, 0, 10, 10), Op(6, 1, 11, 11), Op(6, 15, 12, 12),
                Op(15, r, 0, 10), behind, Op(1, 2, 0, 10),
                Op(1, 2, 0, 12)>> :
              behind \in {Op(1, 2, 0, 10), Op(3, r, 0, 2)} } :
            r \in WaitRegs }

InitWait == InitWith(WaitProgs \X {TRUE} \X {TRUE})

SpecWait == InitWait /\ [][Step]_vars

(* The sound timer on its own: programs that load it, one of which loads   *)
(* it a second time with 0, run against update_time calls.                 *)

SoundProgs ==
    { <<Op(6, 0, 0, 5), Op(15, 0, 1, 8), Op(6, 0, 0, 0), Op(15, 0, 1, 8),
        Op(1, 2, 0, 8)>>,
      <<Op(6, 0, 0, 2), Op(15, 0, 1, 8), Op(1, 2, 0, 4)>>,
      <<Op(6, 0, 0, 1), Op(15, 0, 1, 8), Op(15, 0, 1, 8), Op(1, 2, 0, 0)>> }

InitSound == InitWith(SoundProgs \X {TRUE} \X {TRUE})

SpecSound == InitSound /\ [][Next]_vars

(* Two machines in one process.  The second machine is initialised and     *)
(* ticked by its owner but never stepped, so its timers stay 0 and its     *)
(* fields stay those of init_machine; what its calls change is the         *)
(* file-scope global_delta, which init_machine and update_time use for     *)
(* whichever machine they are given.                                       *)

InitOther ==
    /\ global_delta' = 0
    /\ call' = [op |-> "init_other", fetched |-> FALSE, opcode |-> 0,
                in |-> NoInput, delta |-> 0]
    /\ prev' = History(cpu)
    /\ UNCHANGED <<cpu, speaker_on, steps, ticks>>

TickOther ==
    /\ ticks < MaxTicks
    /\ \E delta \in Deltas :
          LET s == update_time(init_machine, global_delta, speaker_on, delta)
          IN /\ global_delta' = s.global_delta
             /\ speaker_on' = s.speaker_on
             /\ call' = [op |-> "tick_other", fetched |-> FALSE, opcode |-> 0,
                         in |-> NoInput, delta |-> delta]
    /\ prev' = History(cpu)
    /\ ticks' = ticks + 1
    /\ UNCHANGED <<cpu, steps>>

NextTwo == Step \/ Tick \/ InitOther \/ TickOther

TwoProgs ==
    { <<Op(6, 0, 6, 4), Op(15, 0, 1, 5), Op(1, 2, 0, 4)>>,
      <<Op(6, 0, 0, 2), Op(15, 0, 1, 5), Op(15, 0, 1, 8), Op(1, 2, 0, 6)>> }

InitTwo == InitWith(TwoProgs \X {TRUE} \X {TRUE})

SpecTwo == InitTwo /\ [][NextTwo]_vars

(* The main loop run without end: step_machine and update_time are called  *)
(* for as long as the window is open, update_time once per iteration.      *)
(* The calls are not counted, and the elapsed times include the smallest   *)
(* one, 1 ms.  The programs load both timers and then loop, wait for a     *)
(* key, or load the timers again and again.                                *)

HostDeltas == {1, 16, 1000}

HostStep ==
    /\ \E in \in StepInputs(cpu) :
          /\ cpu' = step_machine(cpu, in)
          /\ call' = [op |-> "step", fetched |-> Fetches(cpu, in.keys),
                      opcode |-> IF Fetches(cpu, in.keys)
                                 THEN fetch(cpu, in.oobr) ELSE 0,
                      in |-> in, delta |-> 0]
    /\ prev' = History(cpu)
    /\ UNCHANGED <<global_delta, speaker_on, steps, ticks>>

HostTick ==
    /\ \E delta \in HostDeltas :
          LET s == update_time(cpu, global_delta, speaker_on, delta) IN
          /\ cpu' = s.cpu
          /\ global_delta' = s.global_delta
          /\ speaker_on' = s.speaker_on
          /\ call' = [op |-> "tick", fetched |-> FALSE, opcode |-> 0,
                      in |-> NoInput, delta |-> delta]
    /\ prev' = History(cpu)
    /\ UNCHANGED <<steps, ticks>>

NextHost == HostStep \/ HostTick

HostLoopProg ==
    <<Op(6, 0, 0, 8), Op(6, 1, 0, 3), Op(15, 0, 1, 5), Op(15, 1, 1, 8),
      Op(1, 2, 0, 8)>>

HostWaitProg ==
    <<Op(6, 0, 0, 3), Op(6, 1, 0, 8), Op(15, 0, 1, 5), Op(15, 1, 1, 8),
      Op(15, 2, 0, 10), Op(1, 2, 0, 10)>>

HostReloadProg ==
    <<Op(6, 0, 0, 2), Op(15, 0, 1, 5), Op(15, 0, 1, 8), Op(1, 2, 0, 2)>>

HostConfigs ==
    ({HostLoopProg} \X {TRUE} \X BOOLEAN)
        \cup ({HostWaitProg} \X BOOLEAN \X {TRUE})
        \cup ({HostReloadProg} \X {TRUE} \X {TRUE})

InitHost == InitWith(HostConfigs)

SpecHost == InitHost /\ [][NextHost]_vars /\ WF_vars(HostTick)

IsStep  == call'.op = "step"
IsTick  == call'.op = "tick"
Polling == cpu.wait_key # -1 /\ cpu.keydown

LowestKey(keys) ==
    CHOOSE k \in keys \cap (0..15) : \A j \in keys \cap (0..15) : k <= j

(* The machine as the fetch of a Step call finds it: with the key poll of  *)
(* a resolving call already applied.                                       *)
Resolved ==
    IF Polling
    THEN [cpu EXCEPT !.v[cpu.wait_key] = LowestKey(call'.in.keys),
                     !.wait_key = -1]
    ELSE cpu

Max(a, b) == IF a >= b THEN a ELSE b

(* C1: with a key capability installed that reports all sixteen keys up,   *)
(* a Step call on a machine in Waiting(R) leaves the program counter, the  *)
(* registers, I, memory, framebuffer, call stack, timers and the wait      *)
(* state unchanged, however often it is repeated.                          *)
C1_WaitingStepChangesNothing ==
    [][ (IsStep /\ Polling /\ call'.in.keys \cap (0..15) = {})
            => (cpu' = cpu /\ global_delta' = global_delta) ]_vars

C1_Witness ==
    /\ call.op = "step" /\ ~call.fetched
    /\ cpu.keydown /\ cpu.wait_key \in 0..15 /\ prev.wait_key = cpu.wait_key

(* C2, as stated: the call that resolves Waiting(R) does not fetch, so it  *)
(* only writes the key into register R and clears the wait state.          *)
C2_ResolvingStepOnlyWritesKey ==
    [][ (IsStep /\ Polling /\ call'.in.keys \cap (0..15) # {})
            => cpu' = [cpu EXCEPT !.v[cpu.wait_key] = LowestKey(call'.in.keys),
                                  !.wait_key = -1] ]_vars

(* C2, amended: the call that resolves Waiting(R) writes the lowest key    *)
(* that is down into register R, clears the wait state, and then in the    *)
(* same call fetches the opcode at the program counter, advances the       *)
(* program counter by 2 mod 0x1000 and runs the handler of that opcode.    *)
C2_ResolvingStepAlsoFetches ==
    [][ (IsStep /\ Polling /\ call'.in.keys \cap (0..15) # {})
            => LET r == [cpu EXCEPT
                           !.v[cpu.wait_key] = LowestKey(call'.in.keys),
                           !.wait_key = -1]
               IN /\ call'.fetched
                  /\ call'.opcode = fetch(cpu, call'.in.oobr)
                  /\ cpu' = nibbles([r EXCEPT !.pc = (cpu.pc + 2) % 4096],
                                    call'.opcode, call'.in) ]_vars

C2_Witness ==
    /\ call.op = "step" /\ call.fetched /\ call.in.keys # {}
    /\ cpu.keydown /\ prev.wait_key \in 0..15
    /\ cpu.pc # 512

(* C3, as stated: from a zero accumulator one update_time call with 1000   *)
(* ms performs exactly 60 ticks: a timer at v ends at max(v - 60, 0).      *)
C3_ThousandMsIsSixtyTicks ==
    [][ (IsTick /\ call'.delta = 1000 /\ global_delta = 0)
            => /\ cpu'.dt = Max(cpu.dt - 60, 0)
               /\ cpu'.st = Max(cpu.st - 60, 0) ]_vars

IsOp(p) == IsStep /\ call'.fetched /\ OPCODE_P(call'.opcode) = p

(* C4, as stated: for all X, Y in 0..15 and a = V[X], b = V[Y] before the  *)
(* instruction, after 8XY4 V[0xF] = 1 iff a + b > 255, and                 *)
(* V[X] = (a + b) mod 256.                                                 *)
C4_AddSetsCarryAndSum ==
    [][ (IsOp(8) /\ OPCODE_N(call'.opcode) = 4 /\ ~Polling)
            => LET x == OPCODE_X(call'.opcode)
                   y == OPCODE_Y(call'.opcode)
                   a == cpu.v[x]
                   b == cpu.v[y]
               IN /\ cpu'.v[15] = (IF a + b > 255 THEN 1 ELSE 0)
                  /\ cpu'.v[x] = (a + b) % 256 ]_vars

(* The sprite byte of row j that the draw of this call reads. *)
SpriteRow(j) == ReadMem(cpu, cpu.i + j, call'.in.oobr)

SpriteBit(j, col) == (SpriteRow(j) \div Pow2(7 - col)) % 2

(* C5, as stated: DXYN XORs the sprite bit at (row, column) into the cell  *)
(* ((V[X] + column) mod 64, (V[Y] + row) mod 32), V[X] and V[Y] being the  *)
(* values before the instruction, and leaves V[0xF] = 1 iff some cell was  *)
(* flipped from 1 to 0, else 0.                                            *)
C5_DrawXorsAtOldCoordinates ==
    [][ (IsOp(13) /\ ~Polling)
            => LET x  == cpu.v[OPCODE_X(call'.opcode)]
                   y  == cpu.v[OPCODE_Y(call'.opcode)]
                   n  == OPCODE_N(call'.opcode)
                   At(j, col) == 64 * ((y + j) % 32) + ((x + col) % 64)
               IN /\ \A j \in 0..(n - 1), col \in 0..7 :
                        cpu'.screen[At(j, col)] =
                            (cpu.screen[At(j, col)] + SpriteBit(j, col)) % 2
                  /\ cpu'.v[15] =
                        (IF \E p \in 0..(SCREENSIZ - 1) :
                               cpu.screen[p] = 1 /\ cpu'.screen[p] = 0
                         THEN 1 ELSE 0) ]_vars

(* Two DXYN in succession, the second with the same opcode, the same I,    *)
(* the same sprite bytes and the same coordinate values as the first.      *)
SameDrawTwice ==
    /\ call.op = "step" /\ call.fetched /\ OPCODE_P(call.opcode) = 13
    /\ IsOp(13) /\ ~Polling
    /\ call'.opcode = call.opcode
    /\ cpu.i = prev.i
    /\ call'.in.oobr = call.in.oobr
    /\ cpu.v[OPCODE_X(call.opcode)] = prev.v[OPCODE_X(call.opcode)]
    /\ cpu.v[OPCODE_Y(call.opcode)] = prev.v[OPCODE_Y(call.opcode)]

(* C6, as stated: the second of two such draws restores every framebuffer  *)
(* cell to the value it had before the first.                              *)
C6_DrawTwiceRestoresScreen ==
    [][ SameDrawTwice => cpu'.screen = prev.screen ]_vars

(* C7, as stated: if the first of two such draws reported no collision,    *)
(* the second reports no collision either.                                 *)
C7_SecondDrawNoCollision ==
    [][ (SameDrawTwice /\ cpu.v[15] = 0) => cpu'.v[15] = 0 ]_vars

(* C7, amended: if the first of two such draws reported no collision, the  *)
(* second reports a collision exactly when the sprite has a set bit: it    *)
(* erases what the first draw set, so V[0xF] = 1 unless every sprite bit   *)
(* is 0 (or N = 0), and then V[0xF] = 0.                                   *)
C7_SecondDrawCollidesIffSpriteSet ==
    [][ (SameDrawTwice /\ cpu.v[15] = 0)
            => cpu'.v[15] =
                  (IF \E j \in 0..(OPCODE_N(call'.opcode) - 1) : SpriteRow(j) # 0
                   THEN 1 ELSE 0) ]_vars

C7_Witness ==
    /\ call.op = "step" /\ call.fetched /\ OPCODE_P(call.opcode) = 13
    /\ OPCODE_N(call.opcode) > 0
    /\ prev.opcode = call.opcode
    /\ prev.i = cpu.i /\ prev.v[15] = 0 /\ cpu.v[15] = 1
    /\ \E p \in 0..(SCREENSIZ - 1) : prev.screen[p] = 1 /\ cpu.screen[p] = 0

(* C8: CALL with stack_pointer = 16 and RET with stack_pointer = 0 are     *)
(* no-ops: after the call the program counter is at its post-fetch value   *)
(* and nothing else that the handler could touch has changed, so the same  *)
(* holds again when the instruction is repeated.                           *)
C8_StackLimitsAreNoOps ==
    [][ (IsStep /\ call'.fetched
           /\ ( \/ OPCODE_P(call'.opcode) = 2 /\ cpu.sp = STACKSIZ
                \/ call'.opcode = 238 /\ cpu.sp = 0 ))
            => LET r == IF Polling
                        THEN [cpu EXCEPT
                                !.v[cpu.wait_key] = LowestKey(call'.in.keys),
                                !.wait_key = -1]
                        ELSE cpu
               IN cpu' = [r EXCEPT !.pc = (cpu.pc + 2) % 4096] ]_vars

C8_Witness ==
    /\ call.op = "step" /\ call.fetched
    /\ OPCODE_P(call.opcode) = 2 /\ cpu.sp = STACKSIZ
    /\ cpu.pc # OPCODE_NNN(call.opcode)
    /\ cpu.stack[STACKSIZ - 1] # cpu.pc

(* C9, as stated: in every reachable state the program counter is in       *)
(* [0, 0xFFF], the stack pointer in [0, 16], every stack entry below the   *)
(* stack pointer in [0, 0xFFF], every framebuffer cell 0 or 1, and the     *)
(* wait-state target register, when set, in [0, 0xF].                      *)
C9_MachineInvariant ==
    /\ cpu.pc \in 0..4095
    /\ cpu.sp \in 0..STACKSIZ
    /\ \A k \in 0..(STACKSIZ - 1) : k < cpu.sp => cpu.stack[k] \in 0..4095
    /\ \A p \in 0..(SCREENSIZ - 1) : cpu.screen[p] \in {0, 1}
    /\ cpu.wait_key \in -1..15

(* C10, as stated: in every reachable state the address register I is in   *)
(* [0, 0xFFF].                                                             *)
C10_AddressRegisterTwelveBit ==
    cpu.i \in 0..4095

(* The condition of a skip opcode, and the skip opcodes the instruction   *)
(* set defines.                                                            *)
SkipCondition(c, opcode) ==
    LET vx == c.v[OPCODE_X(opcode)]
        vy == c.v[OPCODE_Y(opcode)]
        kk == OPCODE_KK(opcode)
    IN CASE OPCODE_P(opcode) = 3 -> vx = kk
         [] OPCODE_P(opcode) = 4 -> vx # kk
         [] OPCODE_P(opcode) = 5 -> vx = vy
         [] OPCODE_P(opcode) = 9 -> vx # vy

IsSkipOp(opcode) ==
    \/ OPCODE_P(opcode) \in {3, 4}
    \/ OPCODE_P(opcode) \in {5, 9} /\ OPCODE_N(opcode) = 0

(* C11: for each of the skip instructions 3XKK, 4XKK, 5XY0 and 9XY0 and    *)
(* every program counter p it is fetched at, the Step call leaves the      *)
(* program counter at (p + 4) mod 0x1000 when the condition holds and at   *)
(* (p + 2) mod 0x1000 when it does not, and changes no register, memory    *)
(* cell, stack entry or framebuffer cell.                                  *)
C11_SkipAdvancesByFourOrTwo ==
    [][ (IsStep /\ call'.fetched /\ IsSkipOp(call'.opcode))
            => cpu' = [Resolved EXCEPT !.pc =
                          IF SkipCondition(Resolved, call'.opcode)
                          THEN (cpu.pc + 4) % 4096
                          ELSE (cpu.pc + 2) % 4096] ]_vars

C11_Witness ==
    /\ call.op = "step" /\ call.fetched
    /\ OPCODE_P(call.opcode) = 3
    /\ cpu.v[OPCODE_X(call.opcode)] = OPCODE_KK(call.opcode)
    /\ cpu.pc = 0

(* The program of C12 as load_rom stores it at 0x200. *)
AddAndReturn ==
    Rom(<<Op(6, 0, 0, 5), Op(6, 1, 0, 3), Op(8, 0, 1, 4), Op(0, 0, 14, 14)>>)

RunsAddAndReturn ==
    \A k \in 1..Len(AddAndReturn) :
        cpu.mem[ROM_BASE + k - 1] = AddAndReturn[k]

(* C12: from a freshly initialised machine with the bytes 0x60 0x05 0x61   *)
(* 0x03 0x80 0x14 0x00 0xEE at 0x200, four Step calls end with V[0] = 8,   *)
(* V[1] = 3, V[0xF] = 0, stack pointer 0 and program counter 0x208.        *)
C12_FourStepsAddAndReturn ==
    (steps = 4 /\ RunsAddAndReturn)
        => /\ cpu.v[0] = 8
           /\ cpu.v[1] = 3
           /\ cpu.v[15] = 0
           /\ cpu.sp = 0
           /\ cpu.pc = 520

C12_Witness ==
    /\ steps = 4 /\ RunsAddAndReturn
    /\ call.op = "step" /\ call.fetched /\ call.opcode = 238
    /\ prev.v[0] = 8

(* C13, as stated: in every configuration, also with no key capability     *)
(* installed, a Step call on a machine in Waiting(R) that is still in      *)
(* Waiting(R) afterwards has fetched and executed nothing: the program     *)
(* counter has not moved.                                                  *)
C13_StillWaitingMeansNoFetch ==
    [][ (IsStep /\ cpu.wait_key # -1 /\ cpu'.wait_key = cpu.wait_key)
            => (~call'.fetched /\ cpu'.pc = cpu.pc) ]_vars

(* C14, as stated: update_time ticks as long as the accumulator holds at   *)
(* least one period of 1000/60 ms, so after every call the accumulator is  *)
(* strictly below one period.                                              *)
C14_AccumulatorBelowOnePeriod ==
    call.op = "tick" => global_delta < TICK_MS

(* The opcodes of the families 0, 8, E and F that the instruction set      *)
(* leaves undefined.                                                       *)
IsUndefinedOp(opcode) ==
    \/ OPCODE_P(opcode) = 0 /\ opcode \notin {224, 238}
    \/ OPCODE_P(opcode) = 8 /\ OPCODE_N(opcode) \in {8, 9, 10, 11, 12, 13, 15}
    \/ OPCODE_P(opcode) = 14 /\ OPCODE_KK(opcode) \notin {158, 161}
    \/ OPCODE_P(opcode) = 15
         /\ OPCODE_KK(opcode) \notin {7, 10, 21, 24, 30, 41, 51, 85, 101}

(* C15: a Step call that fetches an undefined sub-opcode (0NNN other than  *)
(* 00E0 and 00EE, 8XYN with N in 8..0xD or 0xF, EXKK with KK not 9E or A1, *)
(* FXKK with KK not one of 07 0A 15 18 1E 29 33 55 65) advances the        *)
(* program counter by 2 mod 0x1000 and changes nothing else.               *)
C15_UndefinedOpcodeOnlyAdvances ==
    [][ (IsStep /\ call'.fetched /\ IsUndefinedOp(call'.opcode))
            => cpu' = [Resolved EXCEPT !.pc = (cpu.pc + 2) % 4096] ]_vars

C15_Witness ==
    /\ call.op = "step" /\ call.fetched
    /\ OPCODE_P(call.opcode) = 14 /\ OPCODE_KK(call.opcode) = 159
    /\ cpu.v[0] = 171 /\ cpu.sp = 1 /\ cpu.dt = 171 /\ cpu.i = 80
    /\ \E p \in 0..(SCREENSIZ - 1) : cpu.screen[p] = 1

(* C16: calls and returns are last-in first-out.  A 2NNN fetched at A      *)
(* with sp < 16 stores (A + 2) mod 0x1000 on top of the stack, raises sp   *)
(* by one and jumps to NNN; a 00EE with sp > 0 jumps to the top entry and  *)
(* lowers sp by one; neither touches the entries below the top, and no     *)
(* other call changes sp or the stack.  So the return that matches a call  *)
(* finds (A + 2) mod 0x1000 and restores the sp the call started with.     *)
C16_CallsAndReturnsAreLifo ==
    [][ LET op      == call'.opcode
            calls   == IsStep /\ call'.fetched /\ OPCODE_P(op) = 2
                          /\ cpu.sp < STACKSIZ
            returns == IsStep /\ call'.fetched /\ op = 238 /\ cpu.sp > 0
        IN /\ calls =>
                /\ cpu'.stack =
                      [cpu.stack EXCEPT ![cpu.sp] = (cpu.pc + 2) % 4096]
                /\ cpu'.sp = cpu.sp + 1
                /\ cpu'.pc = OPCODE_NNN(op)
           /\ returns =>
                /\ cpu'.pc = cpu.stack[cpu.sp - 1]
                /\ cpu'.sp = cpu.sp - 1
                /\ cpu'.stack = cpu.stack
           /\ (~calls /\ ~returns) =>
                /\ cpu'.sp = cpu.sp
                /\ cpu'.stack = cpu.stack ]_vars

(* A return from a nested call that is followed by the return of the       *)
(* outer call, which lands behind the outer call at 0x200.                 *)
C16_Witness ==
    /\ call.op = "step" /\ call.fetched /\ call.opcode = 238
    /\ prev.opcode = 238
    /\ cpu.mem[ROM_BASE] = 34 /\ cpu.mem[ROM_BASE + 1] = 6
    /\ cpu.pc = ROM_BASE + 2 /\ cpu.sp = 0
    /\ cpu.stack[0] = ROM_BASE + 2 /\ cpu.stack[1] = ROM_BASE + 8

(* The opcode families whose handlers write no register.                   *)
WritesNoRegister(opcode) ==
    OPCODE_P(opcode) \in {0, 1, 2, 3, 4, 5, 9, 10, 11, 14}

(* C17: when a Step call resolves Waiting(R) while several keys are down,  *)
(* register R receives the lowest-numbered key that is down and the wait   *)
(* resolution writes no other register: with an instruction behind the     *)
(* wait that writes no register itself, the registers after the call are   *)
(* those before it with R replaced by that key.                            *)
C17_LowestKeyIntoTargetOnly ==
    [][ (IsStep /\ Polling /\ call'.in.keys \cap (0..15) # {}
           /\ WritesNoRegister(call'.opcode))
            => /\ cpu'.v = [cpu.v EXCEPT ![cpu.wait_key] =
                               LowestKey(call'.in.keys)]
               /\ \A k \in call'.in.keys \cap (0..15) :
                     cpu'.v[cpu.wait_key] <= k ]_vars

C17_Witness ==
    /\ call.op = "step" /\ call.fetched
    /\ call.in.keys = {2, 9}
    /\ prev.wait_key = 15 /\ cpu.wait_key = -1
    /\ prev.v[15] = 204 /\ cpu.v[15] = 2
    /\ cpu.v[0] = 170 /\ cpu.v[1] = 187

(* C18, as stated: every index into mem that a Step call reads or writes   *)
(* (the opcode bytes at pc and pc + 1, the sprite bytes I .. I + N - 1,    *)
(* the BCD digits I .. I + 2, the FX55/FX65 range I .. I + X) lies in      *)
(* [0, 0xFFF].                                                             *)
C18_MemoryIndicesInRange ==
    [][ (IsStep /\ call'.fetched)
            => MemIndices(cpu, call'.opcode) \subseteq 0..(MEMSIZ - 1) ]_vars

(* C19, as stated: with a speaker capability installed, after any          *)
(* interleaving of step_machine and update_time calls, whenever the sound  *)
(* timer is 0 the last signal given to the speaker, if any, is "off".      *)
C19_SilentWhenSoundTimerZero ==
    (cpu.speaker /\ cpu.st = 0) => speaker_on \in {-1, 0}

(* C20, as stated: the tick accumulator belongs to one machine, so         *)
(* initialising or ticking another machine never changes the milliseconds  *)
(* this machine has accumulated.                                           *)
C20_OtherMachineKeepsAccumulator ==
    [][ call'.op \in {"init_other", "tick_other"}
            => global_delta' = global_delta ]_vars

(* The last call was a step_machine call that executed FX15 or FX18.       *)
TimerReloaded ==
    /\ call.op = "step" /\ call.fetched
    /\ OPCODE_P(call.opcode) = 15 /\ OPCODE_KK(call.opcode) \in {21, 24}

(* C21: if the host keeps calling update_time with at least 1 ms per call  *)
(* and from some point on no executed instruction is FX15 or FX18, then    *)
(* the delay timer and the sound timer eventually are 0 and stay 0, with   *)
(* the machine running or waiting for a key.                               *)
C21_TimersRunDownAndStayZero ==
    (<>[]~TimerReloaded) => <>[](cpu.dt = 0 /\ cpu.st = 0)

(* Both timers have been run down by update_time while the machine waits   *)
(* for a key: the speaker has been told to stop.                           *)
C21_Witness ==
    /\ call.op = "tick" /\ call.delta = 1
    /\ cpu.wait_key # -1 /\ cpu.keydown
    /\ cpu.dt = 0 /\ cpu.st = 0 /\ speaker_on = 0

====
